---- MODULE Spec2Model ----
(***************************************************************************)
(* Model of src/app.py: the notebook variation pipeline.                   *)
(*                                                                         *)
(* A run is either main_with_function_call (load_notebook, extract_cells,  *)
(* process_cells_with_function_call, save_variations, the final print) or  *)
(* a direct call of save_variations with an arbitrary variations list.     *)
(*                                                                         *)
(* Text is a sequence of characters; a cell's 'source' is a sequence of    *)
(* text fragments.  The client library (openai) and the filesystem are the *)
(* environment: the remote call either raises the error class the code     *)
(* catches or returns a response object, and open()/json.dump either       *)
(* succeed or raise IOError.                                               *)
(***************************************************************************)
EXTENDS Naturals, Sequences, FiniteSets

VARIABLES
    entry,          \* "main": main_with_function_call; "direct": save_variations called directly
    file,           \* the input file: [kind, doc]
    pc,             \* position of the run
    notebook,       \* the loaded notebook (None or [cells]), mutated in place by save_variations
    cells,          \* result of extract_cells
    i,              \* index of the cell the loop of process_cells_with_function_call is at (1-based)
    varied_cells,   \* the list built by process_cells_with_function_call
    variations,     \* argument of save_variations
    requests,       \* indices of the cells for which openai.completions.create was called, in call order
    outcome,        \* per processed cell: how its variation was obtained and what the client returned
    opened,         \* TRUE once open(output_path, 'w') has succeeded
    output,         \* content of the output file
    writes,         \* number of times the output file was written
    stdout,         \* the lines printed
    error           \* the exception that left the run, or "none"

vars == <<entry, file, pc, notebook, cells, i, varied_cells, variations,
          requests, outcome, opened, output, writes, stdout, error>>

----------------------------------------------------------------------------
(* Bounds and sample inputs *)

MaxCells == 2
MaxTextLen == 3

\* the value None, in the shape of a notebook
None == [present |-> FALSE, cells |-> <<>>]

\* contents of the output file: never created, truncated by a failed dump, or a document
Absent == [state |-> "absent", doc |-> None]
Partial == [state |-> "partial", doc |-> None]
Written(nb) == [state |-> "written", doc |-> nb]

Char == {"a", "SP", "NL"}

Roles == {"code", "raw"}

\* cell sources: the empty one, and a text of two lines with whitespace at
\* both ends whose fragments are not the lines of the text
Sources ==
    { <<>>,
      << <<"SP", "a", "NL">>, <<"a">>, <<"a", "NL">> >> }

Cells == [cell_type : Roles, source : Sources]

SeqsUpTo(S, n) == UNION {[1..k -> S] : k \in 0..n}

Docs == {[present |-> TRUE, cells |-> cs] : cs \in SeqsUpTo(Cells, MaxCells)}

Texts == SeqsUpTo(Char, MaxTextLen)

\* variation texts handed to a direct call of save_variations
DirectTexts == { <<>>, <<"a", "NL", "a">> }

DirectVariations ==
    SeqsUpTo({[role |-> "code", original |-> <<>>, variation |-> t] : t \in DirectTexts},
             MaxCells + 1)

----------------------------------------------------------------------------
(* Text functions *)

RECURSIVE Join(_)
\* ''.join(fragments)
Join(frags) ==
    IF frags = <<>> THEN <<>> ELSE Head(frags) \o Join(Tail(frags))

IsSpace(c) == c \in {"SP", "NL"}

RECURSIVE LStrip(_)
LStrip(s) ==
    IF s = <<>> THEN <<>>
    ELSE IF IsSpace(Head(s)) THEN LStrip(Tail(s)) ELSE s

RECURSIVE RStrip(_)
RStrip(s) ==
    IF s = <<>> THEN <<>>
    ELSE IF IsSpace(s[Len(s)]) THEN RStrip(SubSeq(s, 1, Len(s) - 1)) ELSE s

\* str.strip()
Strip(s) == RStrip(LStrip(s))

RECURSIVE SplitDropEnds(_, _)
SplitDropEnds(s, cur) ==
    IF s = <<>> THEN (IF cur = <<>> THEN <<>> ELSE <<cur>>)
    ELSE IF Head(s) = "NL"
         THEN <<cur>> \o SplitDropEnds(Tail(s), <<>>)
         ELSE SplitDropEnds(Tail(s), Append(cur, Head(s)))

RECURSIVE SplitAcc(_, _)
\* str.splitlines(keepends=True), cur being the line read so far
SplitAcc(s, cur) ==
    IF s = <<>> THEN (IF cur = <<>> THEN <<>> ELSE <<cur>>)
    ELSE IF Head(s) = "NL"
         THEN <<Append(cur, "NL")>> \o SplitAcc(Tail(s), <<>>)
         ELSE SplitAcc(Tail(s), Append(cur, Head(s)))

SplitLines(s) == SplitAcc(s, <<>>)

----------------------------------------------------------------------------
(* The role lists *)

ProcessRoles ==
    {"code", "markdown", "system", "tools", "user", "assistant", "tool_use", "tool_output"}

SaveRolesAll == Roles \cup
    {"code", "markdown", "system", "tools", "user", "assistant", "tool_use", "tool_output"}

SaveRoles ==
    {"code", "markdown", "system", "tools", "user", "assistant", "tool_use", "tool_output"}

----------------------------------------------------------------------------
(* extract_cells *)

Extract(nb) == IF nb.present THEN nb.cells ELSE <<>>

----------------------------------------------------------------------------
(* generate_variation_with_function_call *)

\* The handler is modelled as written: 'except openai.Error' catches the
\* error the remote call raises.  Whether the installed client library
\* exports that name is outside src/ and is not modelled.

\* what openai.completions.create can return: an object without 'choices',
\* or with a list of at most one completion (n=1)
Responses ==
    { [has_choices |-> FALSE, choices |-> <<>>],
      [has_choices |-> TRUE, choices |-> <<>>] }
    \cup { [has_choices |-> TRUE, choices |-> <<t>>] : t \in Texts }

HasCompletion(r) == r.has_choices /\ Len(r.choices) > 0

FallbackStripped(message) == Strip(message)

\* the value returned when no completion is available
Fallback(message) == message

\* the try block, for a call that returned
GenerateVariation(message, r) ==
    IF HasCompletion(r) THEN Strip(r.choices[1]) ELSE Fallback(message)

----------------------------------------------------------------------------
(* save_variations: the loop over the cells *)

RebuildCell(cell, rec) ==
    [cell EXCEPT !.source = SplitLines(rec.variation)]

RECURSIVE RebuildFromLenient(_, _, _)
RebuildFromLenient(nbcells, vs, k) ==
    IF k > Len(nbcells) THEN [cells |-> nbcells, error |-> "none"]
    ELSE IF nbcells[k].cell_type \in SaveRoles /\ k <= Len(vs)
         THEN RebuildFromLenient([nbcells EXCEPT ![k] = RebuildCell(nbcells[k], vs[k])], vs, k + 1)
         ELSE RebuildFromLenient(nbcells, vs, k + 1)

RECURSIVE RebuildFromDrop(_, _, _)
RebuildFromDrop(nbcells, vs, k) ==
    IF k > Len(nbcells) THEN [cells |-> nbcells, error |-> "none"]
    ELSE IF nbcells[k].cell_type \in SaveRoles
         THEN IF k > Len(vs)
              THEN [cells |-> nbcells, error |-> "IndexError"]
              ELSE RebuildFromDrop([nbcells EXCEPT ![k] = RebuildCell(nbcells[k], vs[k])], vs, k + 1)
         ELSE RebuildFromDrop(SubSeq(nbcells, 1, k - 1) \o SubSeq(nbcells, k + 1, Len(nbcells)), vs, k)

RECURSIVE RebuildFrom(_, _, _)
\* the for loop from cell k on: the cells as mutated so far and the
\* exception that ended the loop, if any
RebuildFrom(nbcells, vs, k) ==
    IF k > Len(nbcells) THEN [cells |-> nbcells, error |-> "none"]
    ELSE IF nbcells[k].cell_type \in SaveRoles
         THEN IF k > Len(vs)
              THEN [cells |-> nbcells, error |-> "IndexError"]
              ELSE RebuildFrom([nbcells EXCEPT ![k] = RebuildCell(nbcells[k], vs[k])], vs, k + 1)
         ELSE RebuildFrom(nbcells, vs, k + 1)

RebuildTolerant(nb, vs) ==
    IF ~nb.present THEN [nb |-> nb, error |-> "none"]
    ELSE LET r == RebuildFrom(nb.cells, vs, 1)
         IN [nb |-> [nb EXCEPT !.cells = r.cells], error |-> r.error]

\* the loop of save_variations on a notebook: None is not subscriptable
Rebuild(nb, vs) ==
    IF ~nb.present THEN [nb |-> nb, error |-> "TypeError"]
    ELSE LET r == RebuildFrom(nb.cells, vs, 1)
         IN [nb |-> [nb EXCEPT !.cells = r.cells], error |-> r.error]

----------------------------------------------------------------------------
(* Initial states *)

Files ==
    {[kind |-> "ok", doc |-> d] : d \in Docs}
    \cup {[kind |-> k, doc |-> None] : k \in {"NotFound", "DecodeError"}}

MainInit ==
    /\ entry = "main"
    /\ file \in Files
    /\ pc = "load"
    /\ notebook = None
    /\ variations = <<>>

DirectInit ==
    /\ entry = "direct"
    /\ file \in {[kind |-> "ok", doc |-> d] : d \in Docs}
    /\ pc = "save"
    /\ notebook = file.doc
    /\ variations \in DirectVariations

Init ==
    /\ MainInit \/ DirectInit
    /\ cells = <<>>
    /\ i = 1
    /\ varied_cells = <<>>
    /\ requests = <<>>
    /\ outcome = <<>>
    /\ opened = FALSE
    /\ output = Absent
    /\ writes = 0
    /\ stdout = <<>>
    /\ error = "none"

----------------------------------------------------------------------------
(* Actions *)

\* load_notebook (main, line 235)
LoadNotebook ==
    /\ pc = "load"
    /\ pc' = "extract"
    /\ \/ /\ file.kind = "ok"
          /\ notebook' = file.doc
          /\ stdout' = stdout
       \/ /\ file.kind = "NotFound"
          /\ notebook' = None
          /\ stdout' = Append(stdout, "Error: File not found")
       \/ /\ file.kind = "DecodeError"
          /\ notebook' = None
          /\ stdout' = Append(stdout, "Error decoding JSON")
    /\ UNCHANGED <<entry, file, cells, i, varied_cells, variations, requests,
                   outcome, opened, output, writes, error>>

\* extract_cells (main, line 236)
ExtractCells ==
    /\ pc = "extract"
    /\ cells' = Extract(notebook)
    /\ i' = 1
    /\ varied_cells' = <<>>
    /\ pc' = "process"
    /\ UNCHANGED <<entry, file, notebook, variations, requests, outcome,
                   opened, output, writes, stdout, error>>

Record(role, source, variation) ==
    [role |-> role, original |-> source, variation |-> variation]

ProcessSkipDrop ==
    /\ pc = "process"
    /\ i <= Len(cells)
    /\ cells[i].cell_type \notin ProcessRoles
    /\ i' = i + 1
    /\ outcome' = Append(outcome, [kind |-> "skipped", text |-> Join(cells[i].source)])
    /\ UNCHANGED <<entry, file, pc, notebook, cells, varied_cells, variations, requests,
                   opened, output, writes, stdout, error>>

\* one iteration of the loop for a cell whose role is not in the list (lines 197-199, 213-214)
ProcessSkip ==
    /\ pc = "process"
    /\ i <= Len(cells)
    /\ cells[i].cell_type \notin ProcessRoles
    /\ LET source == Join(cells[i].source)
       IN /\ varied_cells' = Append(varied_cells, Record(cells[i].cell_type, source, source))
          /\ outcome' = Append(outcome, [kind |-> "skipped", text |-> source])
    /\ i' = i + 1
    /\ UNCHANGED <<entry, file, pc, notebook, cells, variations, requests,
                   opened, output, writes, stdout, error>>

\* the loop reaches a cell whose role is in the list and the remote call is issued (lines 197-202, 167)
ProcessRequest ==
    /\ pc = "process"
    /\ i <= Len(cells)
    /\ cells[i].cell_type \in ProcessRoles
    /\ requests' = Append(requests, i)
    /\ pc' = "remote"
    /\ UNCHANGED <<entry, file, notebook, cells, i, varied_cells, variations,
                   outcome, opened, output, writes, stdout, error>>

\* the remote call returns a response; the result is recorded (lines 176-179, 212)
RemoteReturns ==
    /\ pc = "remote"
    /\ \E r \in Responses :
         LET source == Join(cells[i].source)
             variation == GenerateVariation(source, r)
         IN /\ varied_cells' = Append(varied_cells, Record(cells[i].cell_type, source, variation))
            /\ outcome' = Append(outcome,
                 [kind |-> IF HasCompletion(r) THEN "text" ELSE "no_completions",
                  text |-> variation])
    /\ i' = i + 1
    /\ pc' = "process"
    /\ UNCHANGED <<entry, file, notebook, cells, variations, requests,
                   opened, output, writes, stdout, error>>

RemoteRaisesAbort ==
    /\ pc = "remote"
    /\ stdout' = Append(stdout, "OpenAI API error")
    /\ variations' = varied_cells
    /\ pc' = "save"
    /\ UNCHANGED <<entry, file, notebook, cells, i, varied_cells, requests, outcome,
                   opened, output, writes, error>>

\* the remote call raises the error the handler catches; the message is recorded (lines 181-183, 212)
RemoteRaises ==
    /\ pc = "remote"
    /\ LET source == Join(cells[i].source)
           variation == Fallback(source)
       IN /\ varied_cells' = Append(varied_cells, Record(cells[i].cell_type, source, variation))
          /\ outcome' = Append(outcome, [kind |-> "error", text |-> variation])
    /\ stdout' = Append(stdout, "OpenAI API error")
    /\ i' = i + 1
    /\ pc' = "process"
    /\ UNCHANGED <<entry, file, notebook, cells, variations, requests,
                   opened, output, writes, error>>

\* the loop is over: return varied_cells (line 216), bound to variations (line 237)
ProcessReturn ==
    /\ pc = "process"
    /\ i > Len(cells)
    /\ variations' = varied_cells
    /\ pc' = "save"
    /\ UNCHANGED <<entry, file, notebook, cells, i, varied_cells, requests, outcome,
                   opened, output, writes, stdout, error>>

\* save_variations: the loop raises (TypeError on None, IndexError); not an IOError, so it propagates
SaveRaises ==
    /\ pc = "save"
    /\ LET r == Rebuild(notebook, variations)
       IN /\ r.error # "none"
          /\ notebook' = r.nb
          /\ error' = r.error
    /\ pc' = "crashed"
    /\ UNCHANGED <<entry, file, cells, i, varied_cells, variations, requests, outcome,
                   opened, output, writes, stdout>>

\* save_variations: the loop completes, the file is written, the status line is printed
SaveWrites ==
    /\ pc = "save"
    /\ LET r == Rebuild(notebook, variations)
       IN /\ r.error = "none"
          /\ notebook' = r.nb
          /\ output' = Written(r.nb)
    /\ opened' = TRUE
    /\ writes' = writes + 1
    /\ stdout' = Append(stdout, "Variations saved")
    /\ pc' = "saved"
    /\ UNCHANGED <<entry, file, cells, i, varied_cells, variations, requests, outcome, error>>

\* save_variations: the loop completes, open() or json.dump raises IOError, which is caught and printed
SaveIOError ==
    /\ pc = "save"
    /\ LET r == Rebuild(notebook, variations)
       IN /\ r.error = "none"
          /\ notebook' = r.nb
    /\ \/ /\ opened' = FALSE           \* open() failed
          /\ output' = output
       \/ /\ opened' = TRUE            \* json.dump failed after the file was truncated
          /\ output' = Partial
    /\ stdout' = Append(stdout, "Error saving variations")
    /\ pc' = "saved"
    /\ UNCHANGED <<entry, file, cells, i, varied_cells, variations, requests, outcome,
                   writes, error>>

\* the print that ends main_with_function_call (line 239)
MainPrint ==
    /\ pc = "saved"
    /\ entry = "main"
    /\ stdout' = Append(stdout, "Variations saved")
    /\ pc' = "done"
    /\ UNCHANGED <<entry, file, notebook, cells, i, varied_cells, variations, requests,
                   outcome, opened, output, writes, error>>

Next ==
    \/ LoadNotebook
    \/ ExtractCells
    \/ ProcessSkip
    \/ ProcessRequest
    \/ RemoteReturns
    \/ RemoteRaises
    \/ ProcessReturn
    \/ SaveRaises
    \/ SaveWrites
    \/ SaveIOError
    \/ MainPrint

Spec == Init /\ [][Next]_vars

----------------------------------------------------------------------------
(* Vocabulary of the properties *)

\* the recognized set of roles
Recognized ==
    {"code", "markdown", "system", "tools", "user", "assistant", "tool_use", "tool_output"}

Running == {"load", "extract", "process", "remote", "save"}
AfterProcess == {"save", "saved", "done", "crashed"}
AfterRebuild == {"saved", "done"}

RolesOf(cs) == [k \in 1..Len(cs) |-> cs[k].cell_type]

\* the indices of the recognized-role cells among the first n, in order
RecognizedUpTo(cs, n) ==
    SelectSeq([k \in 1..n |-> k], LAMBDA k : cs[k].cell_type \in Recognized)

\* frags is a split of a text into its lines: no fragment is empty, a line
\* break occurs only as the last character of a fragment, and every fragment
\* but the last ends with one
IsLineSplit(frags) ==
    \A k \in 1..Len(frags) :
        /\ Len(frags[k]) >= 1
        /\ \A j \in 1..(Len(frags[k]) - 1) : frags[k][j] # "NL"
        /\ k < Len(frags) => frags[k][Len(frags[k])] = "NL"

Untrimmed(t) == Strip(t) # t

----------------------------------------------------------------------------
(* C1 *)

Mismatch == entry = "direct" /\ pc \notin Running /\ Len(variations) # Len(file.doc.cells)

----------------------------------------------------------------------------
(* C2 *)

\* C2: when loading yields no document, the run of main ends without an
\* exception and the output file has been opened for the write of the
\* (empty) document.
C2_AbsentDocumentCompletes ==
    (entry = "main" /\ file.kind # "ok" /\ pc \notin Running)
        => (error = "none" /\ pc # "crashed" /\ opened)

----------------------------------------------------------------------------
(* C3 *)

\* C3: for every processed cell of recognized role whose remote call raised
\* the service error or returned no completion, the recorded variation is the
\* cell's original text, untrimmed, and no exception has left the processing.
C3_FallbackIsOriginal ==
    entry = "main" =>
        /\ \A k \in 1..Len(outcome) :
              outcome[k].kind \in {"error", "no_completions"} =>
                  /\ k <= Len(varied_cells)
                  /\ cells[k].cell_type \in Recognized
                  /\ varied_cells[k].variation = Join(file.doc.cells[k].source)
                  /\ varied_cells[k].variation = varied_cells[k].original
        /\ (outcome # <<>> => error = "none")

C3_Witness ==
    /\ entry = "main"
    /\ pc = "save"
    /\ \E k, l \in 1..Len(outcome) :
          /\ outcome[k].kind = "error"
          /\ outcome[l].kind = "no_completions"
          /\ Untrimmed(varied_cells[k].original)
          /\ Untrimmed(varied_cells[l].original)
          /\ varied_cells[k].variation = varied_cells[k].original
          /\ varied_cells[l].variation = varied_cells[l].original

----------------------------------------------------------------------------
(* C4 *)

\* C4: at every point of the processing the remote requests issued so far
\* are exactly those of the recognized-role cells reached so far, one each,
\* in cell order; a request is in flight only when every earlier cell has
\* its record; and once the processing is over, whatever the failures were,
\* every cell has been reached and has its record.
C4_OneRequestPerRecognizedCell ==
    entry = "main" =>
        /\ i <= Len(cells) + 1
        /\ requests = RecognizedUpTo(cells, IF pc = "remote" THEN i ELSE i - 1)
        /\ Len(varied_cells) = i - 1
        /\ pc \in AfterProcess =>
              /\ i = Len(cells) + 1
              /\ requests = RecognizedUpTo(cells, Len(cells))
              /\ Len(variations) = Len(cells)

C4_Witness ==
    /\ entry = "main"
    /\ pc = "save"
    /\ Len(cells) = 2
    /\ outcome[1].kind = "error"
    /\ requests = <<1, 2>>
    /\ Len(variations) = 2

----------------------------------------------------------------------------
(* C5 *)

\* C5: the output file is written at most once; it is opened or written only
\* inside save_variations after its loop has completed, which in a run of
\* main is after every cell has been processed; and it is never opened or
\* written in a run whose loading failed or whose rebuild raised IndexError.
C5_WriteOnceAtEnd ==
    /\ writes <= 1
    /\ (opened \/ writes > 0 \/ output # Absent) =>
          /\ pc \in AfterRebuild
          /\ error = "none"
          /\ entry = "main" => (i = Len(cells) + 1 /\ Len(varied_cells) = Len(cells))
    /\ file.kind # "ok" => (~opened /\ writes = 0 /\ output = Absent)
    /\ error # "none" => (~opened /\ writes = 0 /\ output = Absent)

C5_Witness ==
    /\ entry = "main"
    /\ file.kind = "NotFound"
    /\ pc = "crashed"
    /\ ~opened
    /\ output = Absent

----------------------------------------------------------------------------
(* C6 *)

\* C6: after extract, process and rebuild of a loaded document, the notebook
\* (and the document written, if one was) has as many cells as the input and
\* the same roles in the same order.
C6_ShapePreserved ==
    (entry = "main" /\ file.kind = "ok" /\ pc \in AfterRebuild) =>
        /\ Len(Extract(notebook)) = Len(file.doc.cells)
        /\ RolesOf(Extract(notebook)) = RolesOf(file.doc.cells)
        /\ output.state = "written" =>
              RolesOf(Extract(output.doc)) = RolesOf(file.doc.cells)

C6_Witness ==
    /\ entry = "main"
    /\ pc = "done"
    /\ output.state = "written"
    /\ RolesOf(file.doc.cells) = <<"raw", "code">>
    /\ RolesOf(Extract(output.doc)) = <<"raw", "code">>
    /\ output.doc # file.doc

----------------------------------------------------------------------------
(* C7 *)

\* C7: for every cell whose role is outside the recognized set, no remote
\* request is made, its record has variation equal to original, and the cell
\* of the notebook is, at every point and so after the rebuild, the cell of
\* the input, fragment for fragment.
C7_PassThrough ==
    \A k \in 1..Len(file.doc.cells) :
        file.doc.cells[k].cell_type \notin Recognized =>
            /\ \A r \in 1..Len(requests) : requests[r] # k
            /\ k <= Len(varied_cells) =>
                  varied_cells[k].variation = varied_cells[k].original
            /\ notebook.present =>
                  (k <= Len(notebook.cells) /\ notebook.cells[k] = file.doc.cells[k])
            /\ output.state = "written" => output.doc.cells[k] = file.doc.cells[k]

C7_Witness ==
    /\ entry = "main"
    /\ pc = "done"
    /\ output.state = "written"
    /\ Len(cells) = 2
    /\ file.doc.cells[1].cell_type = "raw"
    /\ file.doc.cells[1].source # SplitLines(Join(file.doc.cells[1].source))
    /\ output.doc.cells[1] = file.doc.cells[1]
    /\ output.doc.cells[2] # file.doc.cells[2]
    /\ requests = <<2>>

----------------------------------------------------------------------------
(* C8 *)

\* C8: after the rebuild, the source of every recognized-role cell is the
\* split into lines (line breaks kept) of the text T the generation client
\* returned for it, and its fragments concatenate to T.
C8_RebuiltIsLineSplit ==
    (entry = "main" /\ pc \in AfterRebuild) =>
        \A k \in 1..Len(cells) :
            cells[k].cell_type \in Recognized =>
                /\ Join(notebook.cells[k].source) = outcome[k].text
                /\ IsLineSplit(notebook.cells[k].source)

C8_Witness ==
    /\ entry = "main"
    /\ pc = "done"
    /\ \E k \in 1..Len(cells) :
          /\ outcome[k].kind = "text"
          /\ outcome[k].text = <<"a", "NL", "a">>
          /\ notebook.cells[k].source = << <<"a", "NL">>, <<"a">> >>

----------------------------------------------------------------------------
(* C9 *)

\* C9: every record built so far carries the role and the concatenated source
\* of the cell at its position, and the processing returns as many records
\* as there are cells, none for no cells.
C9_OneRecordPerCell ==
    entry = "main" =>
        /\ Len(varied_cells) <= Len(cells)
        /\ \A k \in 1..Len(varied_cells) :
              /\ k <= Len(cells)
              /\ varied_cells[k].role = cells[k].cell_type
              /\ varied_cells[k].original = Join(cells[k].source)
        /\ pc \in AfterProcess =>
              /\ variations = varied_cells
              /\ Len(variations) = Len(cells)
              /\ (cells = <<>> => variations = <<>>)

C9_Witness ==
    /\ entry = "main"
    /\ pc = "save"
    /\ Len(variations) = 2
    /\ variations[1].role = "raw"
    /\ variations[2].role = "code"
    /\ variations[1].original # <<>>

----------------------------------------------------------------------------
(* C10 *)

\* C10: the line "Variations saved" is printed only in a run in which the
\* output document was written.
C10_SavedOnlyIfWritten ==
    (\E k \in 1..Len(stdout) : stdout[k] = "Variations saved")
        => (writes = 1 /\ output.state = "written")

====
